---- MODULE Spec2Model ----
(***************************************************************************)
(* libmantle: the sel4cp API simulator (simulator.h) and the libmantle     *)
(* wrappers (libmantle.h) that a protection domain under test calls.       *)
(*                                                                         *)
(* 64-bit words that are used as bit patterns (flag sets, badges, message  *)
(* info words, labels, register values) are modelled as the set of their   *)
(* set bit positions, a subset of 0..63: x | y is a union, x & y an        *)
(* intersection, shifts move positions and drop what leaves 0..63.         *)
(* Counters (stage, timers, digits, tick) are naturals.                    *)
(***************************************************************************)
EXTENDS Integers, FiniteSets, Sequences, TLC

(***************************************************************************)
(* Bounds of the model.  The timers of the scripted scenario are scaled    *)
(* down (the source uses 1000000, 5000000, 10000, 100 and 7500000 calls);  *)
(* their order, 1 < InviteAtDelay < every load value, is the source's.     *)
(***************************************************************************)
InitIrqDelay == 3
Stage2Reload == 2
Stage5IrqDelay == 4
Stage5Reload == 3
InviteAtDelay == 2
MaxTick == 23
MaxTickFlags == 2
MaxTickCalls == 3

(***************************************************************************)
(* Program constants.                                                      *)
(***************************************************************************)
SIM_CALLTYPE_RECV == 0
SIM_CALLTYPE_REPLYRECV == 1
SIM_CALLTYPE_PPCALL == 2
SEL4CP_MAX_CHANNELS == 63
MaxRegister == 120
FirstDigit == 5

\* Stands for 2^64 - 1, the value an unsigned 64-bit decrement of 0 wraps
\* to: the largest integer TLC represents.
UINT64_MAX == 2^31 - 1

(***************************************************************************)
(* Bit patterns.                                                           *)
(***************************************************************************)
WordBits == 0..63

ShiftLeft(w, n) == {b + n : b \in w} \cap WordBits

ShiftRight(w, n) == {b - n : b \in {x \in w : x >= n}}

\* the bit pattern of a small natural
FromNat(n) == {i \in 0..30 : (n \div (2^i)) % 2 = 1}

RECURSIVE ToNat(_)
ToNat(w) ==
  IF w = {} THEN 0
  ELSE LET b == CHOOSE x \in w : TRUE
       IN  2^b + ToNat(w \ {b})

\* conversion to uint16_t / uint8_t
Uint16(w) == w \cap (0..15)

Dec64(x) == IF x = 0 THEN UINT64_MAX ELSE x - 1

\* The C expression (1 << ch) with the int constant 1, converted to
\* uint64_t.  For ch <= 30 it is 2^ch.  For ch = 31 the signed shift
\* overflows and for ch >= 32 the shift count reaches the width of int:
\* both are undefined, and the builds produce INT_MIN sign-extended, a
\* shift by ch mod 32 (sign-extended), zero, or the 64-bit shift.
IntShiftLeft1(ch) ==
  IF ch <= 30 THEN {{ch}}
  ELSE IF ch = 31 THEN {31..63, {31}}
  ELSE {{},
        IF ch % 32 = 31 THEN 31..63 ELSE {ch % 32},
        {ch} \cap WordBits}

(***************************************************************************)
(* Message encoding.                                                       *)
(***************************************************************************)
seL4_MessageInfo_new_leak(label, capsUnwrapped, extraCaps, length) ==
  ShiftLeft(label \cap (0..51), 12)
    \cup ShiftLeft(capsUnwrapped \cap (0..3), 9)
    \cup ShiftLeft(extraCaps \cap (0..1), 7)
    \cup (length \cap (0..6))

seL4_MessageInfo_new(label, capsUnwrapped, extraCaps, length) ==
  ShiftLeft(label \cap (0..51), 12)
    \cup ShiftLeft(capsUnwrapped \cap (0..2), 9)
    \cup ShiftLeft(extraCaps \cap (0..1), 7)
    \cup (length \cap (0..6))

seL4_MessageInfo_get_label(msginfo) == ShiftRight(msginfo \cap (12..63), 12)

seL4_MessageInfo_get_length(msginfo) == msginfo \cap (0..6)

sel4cp_msginfo_new(label, count) ==
  seL4_MessageInfo_new(label, {}, {}, Uint16(count))

sel4cp_msginfo_get_label(msginfo) == seL4_MessageInfo_get_label(msginfo)

(***************************************************************************)
(* State.                                                                  *)
(***************************************************************************)
VARIABLES
  sim_calltype, sim_tick, sim_notified, sim_irq_acked, sim_ppcalled,
  sim_reply_label, sim_msg_register, sim_return_badge, debug,
  sim_pinpad_input, sim_stage, sim_irq_delay, sim_next_digit,
  mantle_ret_count, mantle_ret_badge,
  \* what the caller observes: the last call with its arguments, the word
  \* the simulator returned to the wrapper, the wrapper's return value, and
  \* the event flags as they were when the last recv/reply_recv was entered
  last_call, ret_msginfo, ret_value, pre_flags,
  \* history of the calls made
  last_set, stage2_calls, irq_ack_called, ack0_since_irq,
  \* every value simulate() has stored in sim_pinpad_input[0], in order
  pinpad_log,
  \* message encoding exercised on its own
  msginfo_args, msginfo_word, got_label, got_length, msginfo_done,
  \* the prelude: where the caller of au_array_index/au_abort is, the
  \* arguments of the call, the pointer handed back, what went to
  \* sel4cp_dbg_puts, and the turns of the abort loop taken so far
  au_pc, au_call, au_ptr, dbg_out, au_spins

simVars == <<sim_calltype, sim_tick, sim_notified, sim_irq_acked, sim_ppcalled,
             sim_reply_label, sim_msg_register, sim_return_badge, debug,
             sim_pinpad_input, sim_stage, sim_irq_delay, sim_next_digit>>

mantleVars == <<mantle_ret_count, mantle_ret_badge>>

callVars == <<last_call, ret_msginfo, ret_value, pre_flags>>

historyVars == <<last_set, stage2_calls, irq_ack_called, ack0_since_irq>>

encVars == <<msginfo_args, msginfo_word, got_label, got_length, msginfo_done>>

preludeVars == <<au_pc, au_call, au_ptr, dbg_out, au_spins>>

vars == <<simVars, mantleVars, callVars, historyVars, pinpad_log, encVars,
          preludeVars>>

\* badges the scenario hands out
PPCALL_BADGE == {63}
KeypadBadge == {0}


(***************************************************************************)
(* The simulator's globals as one record, for the operators below.         *)
(***************************************************************************)
sim ==
  [sim_calltype |-> sim_calltype, sim_tick |-> sim_tick,
   sim_notified |-> sim_notified, sim_irq_acked |-> sim_irq_acked,
   sim_ppcalled |-> sim_ppcalled, sim_reply_label |-> sim_reply_label,
   sim_return_badge |-> sim_return_badge, debug |-> debug,
   sim_pinpad_input |-> sim_pinpad_input, sim_stage |-> sim_stage,
   sim_irq_delay |-> sim_irq_delay, sim_next_digit |-> sim_next_digit,
   pinpad_log |-> pinpad_log]

(***************************************************************************)
(* Scenario engine: simulate() is a sequence of conditionals over          *)
(* sim_stage; a block that sets sim_stage lets the next block run in the   *)
(* same call.                                                              *)
(***************************************************************************)
\* stage 0: client1 makes a ppcall
Stage0_channel2(s) ==
  IF s.sim_stage = 0
  THEN [s EXCEPT !.sim_return_badge = PPCALL_BADGE \cup FromNat(2),
                 !.sim_stage = 1]
  ELSE s

Stage0(s) ==
  IF s.sim_stage = 0
  THEN [s EXCEPT !.sim_return_badge = PPCALL_BADGE \cup FromNat(1),
                 !.sim_stage = 1]
  ELSE s

\* stage 1: client1 waits for positive response
Stage1(s) ==
  IF s.sim_stage = 1 /\ s.sim_reply_label = FromNat(1)
  THEN [s EXCEPT !.sim_stage = 2]
  ELSE s

\* stage 2: user enters PIN (generates IRQs)
Stage2_trigger_at_zero(s) ==
  IF s.sim_stage # 2 THEN s
  ELSE
    LET a == IF s.sim_irq_delay > 0
             THEN [s EXCEPT !.sim_irq_delay = @ - 1] ELSE s
        b == IF a.sim_irq_delay = 0 /\ s.sim_irq_delay > 0
             THEN [a EXCEPT !.sim_irq_delay = 0,
                            !.sim_pinpad_input = a.sim_next_digit % 256,
                            !.pinpad_log = Append(@, a.sim_next_digit % 256),
                            !.sim_return_badge = {} \cup FromNat(1)]
             ELSE a
        c == IF b.sim_irq_delay = 0 /\ 0 \in b.sim_irq_acked
             THEN [b EXCEPT !.sim_next_digit = Dec64(@),
                            !.sim_irq_delay = Stage2Reload]
             ELSE b
    IN  IF c.sim_next_digit < 2 THEN [c EXCEPT !.sim_stage = 3] ELSE c

Stage2_ack_unmasked(s) ==
  IF s.sim_stage # 2 THEN s
  ELSE
    LET a == IF s.sim_irq_delay > 1
             THEN [s EXCEPT !.sim_irq_delay = @ - 1] ELSE s
        b == IF a.sim_irq_delay = 1
             THEN [a EXCEPT !.sim_irq_delay = 0,
                            !.sim_pinpad_input = a.sim_next_digit % 256,
                            !.pinpad_log = Append(@, a.sim_next_digit % 256),
                            !.sim_return_badge = {} \cup FromNat(1)]
             ELSE a
        c == IF 0 \in b.sim_irq_acked
             THEN [b EXCEPT !.sim_next_digit = Dec64(@),
                            !.sim_irq_delay = Stage2Reload]
             ELSE b
    IN  IF c.sim_next_digit < 2 THEN [c EXCEPT !.sim_stage = 3] ELSE c

Stage2_floor_zero(s) ==
  IF s.sim_stage # 2 THEN s
  ELSE
    LET a == IF s.sim_irq_delay > 1
             THEN [s EXCEPT !.sim_irq_delay = @ - 1] ELSE s
        b == IF a.sim_irq_delay = 1
             THEN [a EXCEPT !.sim_irq_delay = 0,
                            !.sim_pinpad_input = a.sim_next_digit % 256,
                            !.pinpad_log = Append(@, a.sim_next_digit % 256),
                            !.sim_return_badge = {} \cup FromNat(1)]
             ELSE a
        c == IF b.sim_irq_delay = 0 /\ 0 \in b.sim_irq_acked
             THEN [b EXCEPT !.sim_next_digit = Dec64(@),
                            !.sim_irq_delay = Stage2Reload]
             ELSE b
    IN  IF c.sim_next_digit < 1 THEN [c EXCEPT !.sim_stage = 3] ELSE c

Stage2(s) ==
  IF s.sim_stage # 2 THEN s
  ELSE
    LET a == IF s.sim_irq_delay > 1
             THEN [s EXCEPT !.sim_irq_delay = @ - 1] ELSE s
        b == IF a.sim_irq_delay = 1
             THEN [a EXCEPT !.sim_irq_delay = 0,
                            !.sim_pinpad_input = a.sim_next_digit % 256,
                            !.pinpad_log = Append(@, a.sim_next_digit % 256),
                            !.sim_return_badge = {} \cup FromNat(1)]
             ELSE a
        c == IF b.sim_irq_delay = 0 /\ 0 \in b.sim_irq_acked
             THEN [b EXCEPT !.sim_next_digit = Dec64(@),
                            !.sim_irq_delay = Stage2Reload]
             ELSE b
    IN  IF c.sim_next_digit < 2 THEN [c EXCEPT !.sim_stage = 3] ELSE c

\* stage 3: client 1 awaits notification and then client2 makes ppcall
Stage3_or_later(s) ==
  IF s.sim_stage >= 3 /\ 1 \in s.sim_notified
  THEN [s EXCEPT !.sim_return_badge = PPCALL_BADGE \cup FromNat(2),
                 !.sim_stage = 4,
                 !.sim_reply_label = {}]
  ELSE s

Stage3_keeps_label(s) ==
  IF s.sim_stage = 3 /\ 1 \in s.sim_notified
  THEN [s EXCEPT !.sim_return_badge = PPCALL_BADGE \cup FromNat(2),
                 !.sim_stage = 4]
  ELSE s

Stage3(s) ==
  IF s.sim_stage = 3 /\ 1 \in s.sim_notified
  THEN [s EXCEPT !.sim_return_badge = PPCALL_BADGE \cup FromNat(2),
                 !.sim_stage = 4,
                 !.sim_reply_label = {}]
  ELSE s

Stage4_consumes_label(s) ==
  IF s.sim_stage # 4 THEN s
  ELSE
    LET a == [s EXCEPT !.debug = 1]
    IN  IF a.sim_reply_label = FromNat(1)
        THEN [a EXCEPT !.sim_irq_delay = Stage5IrqDelay,
                       !.sim_next_digit = FirstDigit,
                       !.sim_stage = 5,
                       !.sim_reply_label = {}]
        ELSE a

\* stage 4: client2 waits for positive response
Stage4(s) ==
  IF s.sim_stage # 4 THEN s
  ELSE
    LET a == [s EXCEPT !.debug = 1]
    IN  IF a.sim_reply_label = FromNat(1)
        THEN [a EXCEPT !.sim_irq_delay = Stage5IrqDelay,
                       !.sim_next_digit = FirstDigit,
                       !.sim_stage = 5]
        ELSE a

Stage5_invite_plain(s) ==
  IF s.sim_stage # 5 THEN s
  ELSE
    LET z == [s EXCEPT !.debug = 0]
        a == IF z.sim_irq_delay > 1
             THEN [z EXCEPT !.sim_irq_delay = @ - 1] ELSE z
        i == IF a.sim_irq_delay = InviteAtDelay
             THEN [a EXCEPT !.sim_return_badge = FromNat(1)]
             ELSE a
        b == IF i.sim_irq_delay = 1
             THEN [i EXCEPT !.sim_irq_delay = 0,
                            !.sim_pinpad_input = i.sim_next_digit % 256,
                            !.pinpad_log = Append(@, i.sim_next_digit % 256),
                            !.sim_return_badge = {} \cup FromNat(1)]
             ELSE i
        c == IF b.sim_irq_delay = 0 /\ 0 \in b.sim_irq_acked
             THEN [b EXCEPT !.sim_next_digit = Dec64(@),
                            !.sim_irq_delay = Stage5Reload]
             ELSE b
    IN  IF c.sim_next_digit < 2 THEN [c EXCEPT !.sim_stage = 6] ELSE c

Stage5_restarts(s) ==
  IF s.sim_stage # 5 THEN s
  ELSE
    LET z == [s EXCEPT !.debug = 0]
        a == IF z.sim_irq_delay > 1
             THEN [z EXCEPT !.sim_irq_delay = @ - 1] ELSE z
        i == IF a.sim_irq_delay = InviteAtDelay
             THEN [a EXCEPT !.sim_return_badge = PPCALL_BADGE \cup FromNat(1)]
             ELSE a
        b == IF i.sim_irq_delay = 1
             THEN [i EXCEPT !.sim_irq_delay = 0,
                            !.sim_pinpad_input = i.sim_next_digit % 256,
                            !.pinpad_log = Append(@, i.sim_next_digit % 256),
                            !.sim_return_badge = {} \cup FromNat(1)]
             ELSE i
        c == IF b.sim_irq_delay = 0 /\ 0 \in b.sim_irq_acked
             THEN [b EXCEPT !.sim_next_digit = Dec64(@),
                            !.sim_irq_delay = Stage5Reload]
             ELSE b
    IN  IF c.sim_next_digit < 2 THEN [c EXCEPT !.sim_stage = 0] ELSE c

\* stage 5: user enters PIN while client 1 tries to screw things up
Stage5(s) ==
  IF s.sim_stage # 5 THEN s
  ELSE
    LET z == [s EXCEPT !.debug = 0]
        a == IF z.sim_irq_delay > 1
             THEN [z EXCEPT !.sim_irq_delay = @ - 1] ELSE z
        i == IF a.sim_irq_delay = InviteAtDelay
             THEN [a EXCEPT !.sim_return_badge = PPCALL_BADGE \cup FromNat(1)]
             ELSE a
        b == IF i.sim_irq_delay = 1
             THEN [i EXCEPT !.sim_irq_delay = 0,
                            !.sim_pinpad_input = i.sim_next_digit % 256,
                            !.pinpad_log = Append(@, i.sim_next_digit % 256),
                            !.sim_return_badge = {} \cup FromNat(1)]
             ELSE i
        c == IF b.sim_irq_delay = 0 /\ 0 \in b.sim_irq_acked
             THEN [b EXCEPT !.sim_next_digit = Dec64(@),
                            !.sim_irq_delay = Stage5Reload]
             ELSE b
    IN  IF c.sim_next_digit < 2 THEN [c EXCEPT !.sim_stage = 6] ELSE c

\* the state simulate() leaves and the message info it returns
simulate(s) ==
  IF s.sim_calltype = SIM_CALLTYPE_PPCALL
  THEN [state |-> s, ret |-> sel4cp_msginfo_new({}, {})]
  ELSE [state |-> Stage5(Stage4(Stage3(Stage2(Stage1(Stage0(s)))))),
        ret |-> sel4cp_msginfo_new({}, {})]

(***************************************************************************)
(* sel4cp and sim4cp API.                                                  *)
(***************************************************************************)
sel4cp_notify_bound64(ch, notified) ==
  IF ch > SEL4CP_MAX_CHANNELS + 1 THEN {notified}
  ELSE {notified \cup m : m \in IntShiftLeft1(ch)}

\* the values sel4cp_notify(ch) can leave in sim_notified
sel4cp_notify(ch, notified) ==
  IF ch > SEL4CP_MAX_CHANNELS THEN {notified}
  ELSE {notified \cup m : m \in IntShiftLeft1(ch)}

\* the values sel4cp_irq_ack(ch) can leave in sim_irq_acked
sel4cp_irq_ack(ch, acked) ==
  IF ch > SEL4CP_MAX_CHANNELS THEN {acked}
  ELSE {acked \cup m : m \in IntShiftLeft1(ch)}

\* the register file after sel4cp_mr_set(mr, value)
sel4cp_mr_set(mr, value, regs) ==
  IF mr > MaxRegister THEN regs
  ELSE [regs EXCEPT ![mr] = value]

sel4cp_mr_get_bound119(mr, regs) ==
  IF mr > MaxRegister - 1 THEN {} ELSE regs[mr]

sel4cp_mr_get(mr, regs) ==
  IF mr > MaxRegister THEN {} ELSE regs[mr]

sel4cp_ppcall(s, ch, msginfo) ==
  simulate([s EXCEPT !.sim_tick = @ + 1,
                     !.sim_ppcalled = ch,
                     !.sim_calltype = SIM_CALLTYPE_PPCALL,
                     !.sim_reply_label = sel4cp_msginfo_get_label(msginfo)])

seL4_Recv_keeps_ppcalled(s) ==
  LET r == simulate([s EXCEPT !.sim_tick = @ + 1,
                              !.sim_calltype = SIM_CALLTYPE_RECV,
                              !.sim_return_badge = {}])
  IN  [state |-> [r.state EXCEPT !.sim_notified = {},
                                 !.sim_irq_acked = {}],
       sender |-> r.state.sim_return_badge,
       ret |-> r.ret]

seL4_Recv_clears_first(s) ==
  LET r == simulate([s EXCEPT !.sim_tick = @ + 1,
                              !.sim_calltype = SIM_CALLTYPE_RECV,
                              !.sim_return_badge = {},
                              !.sim_notified = {},
                              !.sim_irq_acked = {},
                              !.sim_ppcalled = 0])
  IN  [state |-> r.state,
       sender |-> r.state.sim_return_badge,
       ret |-> r.ret]

\* state, *sender and return value of seL4_Recv
seL4_Recv(s) ==
  LET r == simulate([s EXCEPT !.sim_tick = @ + 1,
                              !.sim_calltype = SIM_CALLTYPE_RECV,
                              !.sim_return_badge = {}])
  IN  [state |-> [r.state EXCEPT !.sim_notified = {},
                                 !.sim_irq_acked = {},
                                 !.sim_ppcalled = 0],
       sender |-> r.state.sim_return_badge,
       ret |-> r.ret]

\* state, *sender and return value of seL4_ReplyRecv
seL4_ReplyRecv(s, reply_tag) ==
  LET r == simulate([s EXCEPT !.sim_tick = @ + 1,
                              !.sim_calltype = SIM_CALLTYPE_REPLYRECV,
                              !.sim_reply_label =
                                 sel4cp_msginfo_get_label(reply_tag),
                              !.sim_return_badge = {}])
  IN  [state |-> [r.state EXCEPT !.sim_notified = {},
                                 !.sim_irq_acked = {},
                                 !.sim_ppcalled = 0],
       sender |-> r.state.sim_return_badge,
       ret |-> r.ret]


(***************************************************************************)
(* Inputs.                                                                 *)
(***************************************************************************)
\* the scripted scenario: the calls a protection domain makes to drive it
ScenarioNotify == {1}
ScenarioAck == {0}
ScenarioPpcall == {1}
ScenarioLabels == {FromNat(0), FromNat(1)}
ScenarioCounts == {FromNat(3)}

\* the event flags: channels around every limit the code and the C
\* language set (31/32: width of int, 63/64: SEL4CP_MAX_CHANNELS)
FlagNotify == {1, 31, 32, 63, 64, 200}
FlagAck == {0, 31, 64}

\* the register file: indices around its capacity and that of uint8_t
CallRegs == {0, 120, 121, 255}
CallValues == {FromNat(0), FromNat(1), {63}}
CallLabels == {FromNat(1), {0, 52}}

\* the registers the claims follow: the valid indices among the inputs
RegInputs == {mr \in CallRegs : mr <= 120}

\* the encoding: values inside and outside each field's width
EncLabels == {{}, {0}, {51}, {0, 51}, {52}, {0, 52}, {11, 63}, 0..63}
EncCaps == {{}, {0, 2}, {3}, {0, 3}}
EncExtra == {{}, {1}, {2}, {0, 2}}
EncLengths == {{}, {0, 1}, {6}, {7}, {0, 7}, {1, 16}}

(***************************************************************************)
(* Initial state: the initialisers of the globals.                         *)
(***************************************************************************)
InitSim ==
  /\ sim_calltype = SIM_CALLTYPE_RECV
  /\ sim_tick = 0
  /\ sim_notified = {}
  /\ sim_irq_acked = {}
  /\ sim_ppcalled = 0
  /\ sim_reply_label = {}
  /\ sim_msg_register = [i \in 0..MaxRegister |-> {}]
  /\ sim_return_badge = {}
  /\ debug = 0
  /\ sim_pinpad_input = 0
  /\ sim_stage = 0
  /\ sim_irq_delay = InitIrqDelay
  /\ sim_next_digit = FirstDigit
  /\ mantle_ret_count = 0
  /\ mantle_ret_badge = {}
  /\ last_call = [op |-> "none"]
  /\ ret_msginfo = {}
  /\ ret_value = {}
  /\ pre_flags = <<{}, {}, 0>>
  /\ last_set = [i \in RegInputs |-> {}]
  /\ stage2_calls = 0
  /\ irq_ack_called = FALSE
  /\ ack0_since_irq = FALSE
  /\ pinpad_log = <<>>
  /\ au_pc = "idle"
  /\ au_call = [fn |-> "none"]
  /\ au_ptr = 0
  /\ dbg_out = <<>>
  /\ au_spins = 0

Init ==
  /\ InitSim
  /\ msginfo_args = <<{}, {}, {}, {}>>
  /\ msginfo_word = {}
  /\ got_label = {}
  /\ got_length = {}
  /\ msginfo_done = {}

InitEnc ==
  /\ InitSim
  /\ msginfo_args \in EncLabels \X EncCaps \X EncExtra \X EncLengths
  /\ msginfo_word = {}
  /\ got_label = {}
  /\ got_length = {}
  /\ msginfo_done = {}

(***************************************************************************)
(* libmantle API - wrappers.  Each action is one call of the wrapper.      *)
(***************************************************************************)
Commit(s) ==
  /\ sim_calltype' = s.sim_calltype
  /\ sim_tick' = s.sim_tick
  /\ sim_notified' = s.sim_notified
  /\ sim_irq_acked' = s.sim_irq_acked
  /\ sim_ppcalled' = s.sim_ppcalled
  /\ sim_reply_label' = s.sim_reply_label
  /\ sim_return_badge' = s.sim_return_badge
  /\ debug' = s.debug
  /\ sim_pinpad_input' = s.sim_pinpad_input
  /\ sim_stage' = s.sim_stage
  /\ sim_irq_delay' = s.sim_irq_delay
  /\ sim_next_digit' = s.sim_next_digit
  /\ pinpad_log' = s.pinpad_log

NoFlags == <<{}, {}, 0>>

mantle_notify(ch) ==
  /\ sim_notified' \in sel4cp_notify(ch, sim_notified)
  /\ ret_value' = FromNat(0)
  /\ last_call' = [op |-> "notify", ch |-> ch]
  /\ ret_msginfo' = {}
  /\ pre_flags' = NoFlags
  /\ UNCHANGED <<sim_calltype, sim_tick, sim_irq_acked, sim_ppcalled,
                 sim_reply_label, sim_msg_register, sim_return_badge, debug,
                 sim_pinpad_input, sim_stage, sim_irq_delay, sim_next_digit>>
  /\ UNCHANGED <<mantleVars, historyVars, pinpad_log, encVars, preludeVars>>

mantle_irq_ack(ch) ==
  /\ sim_irq_acked' \in sel4cp_irq_ack(ch, sim_irq_acked)
  /\ ret_value' = FromNat(0)
  /\ last_call' = [op |-> "irq_ack", ch |-> ch]
  /\ ret_msginfo' = {}
  /\ pre_flags' = NoFlags
  /\ irq_ack_called' = TRUE
  /\ ack0_since_irq' = IF ch = 0 THEN TRUE ELSE ack0_since_irq
  /\ UNCHANGED <<sim_calltype, sim_tick, sim_notified, sim_ppcalled,
                 sim_reply_label, sim_msg_register, sim_return_badge, debug,
                 sim_pinpad_input, sim_stage, sim_irq_delay, sim_next_digit>>
  /\ UNCHANGED <<mantleVars, last_set, stage2_calls, pinpad_log, encVars,
                 preludeVars>>

mantle_mr_set(mr, value) ==
  /\ sim_msg_register' = sel4cp_mr_set(mr, value, sim_msg_register)
  /\ ret_value' = FromNat(0)
  /\ last_call' = [op |-> "mr_set", mr |-> mr, value |-> value]
  /\ ret_msginfo' = {}
  /\ pre_flags' = NoFlags
  /\ last_set' = IF mr \in DOMAIN last_set
                 THEN [last_set EXCEPT ![mr] = value]
                 ELSE last_set
  /\ UNCHANGED <<sim_calltype, sim_tick, sim_notified, sim_irq_acked,
                 sim_ppcalled, sim_reply_label, sim_return_badge, debug,
                 sim_pinpad_input, sim_stage, sim_irq_delay, sim_next_digit>>
  /\ UNCHANGED <<mantleVars, stage2_calls, irq_ack_called, ack0_since_irq,
                 pinpad_log, encVars, preludeVars>>

mantle_mr_get(mr) ==
  /\ ret_value' = sel4cp_mr_get(mr, sim_msg_register)
  /\ last_call' = [op |-> "mr_get", mr |-> mr]
  /\ ret_msginfo' = {}
  /\ pre_flags' = NoFlags
  /\ UNCHANGED <<simVars, mantleVars, historyVars, pinpad_log, encVars,
                 preludeVars>>

mantle_ppcall(ch, msginfo_label, msginfo_count) ==
  LET msginfo == sel4cp_msginfo_new(msginfo_label, Uint16(msginfo_count))
      r == sel4cp_ppcall(sim, ch, msginfo)
  IN  /\ Commit(r.state)
      /\ mantle_ret_count' = ToNat(Uint16(seL4_MessageInfo_get_length(msginfo)))
      /\ ret_value' = sel4cp_msginfo_get_label(r.ret)
      /\ ret_msginfo' = r.ret
      /\ last_call' = [op |-> "ppcall", ch |-> ch, label |-> msginfo_label,
                       count |-> Uint16(msginfo_count)]
      /\ pre_flags' = NoFlags
      /\ UNCHANGED <<sim_msg_register, mantle_ret_badge, historyVars, encVars,
                     preludeVars>>

\* the stage-2 block of simulate() runs in a recv/reply_recv entered with
\* reply label l
RunsStage2(l) ==
  Stage1(Stage0([sim EXCEPT !.sim_reply_label = l])).sim_stage = 2

CountStage2(l) ==
  IF RunsStage2(l) /\ stage2_calls < InitIrqDelay + 2
  THEN stage2_calls + 1
  ELSE stage2_calls

mantle_recv ==
  LET r == seL4_Recv(sim)
  IN  /\ Commit(r.state)
      /\ mantle_ret_badge' = r.sender
      /\ mantle_ret_count' = ToNat(Uint16(seL4_MessageInfo_get_length(r.ret)))
      /\ ret_value' = sel4cp_msginfo_get_label(r.ret)
      /\ ret_msginfo' = r.ret
      /\ last_call' = [op |-> "recv"]
      /\ pre_flags' = <<sim_notified, sim_irq_acked, sim_ppcalled>>
      /\ stage2_calls' = CountStage2(sim_reply_label)
      /\ ack0_since_irq' =
           IF r.sender = KeypadBadge THEN FALSE ELSE ack0_since_irq
      /\ UNCHANGED <<sim_msg_register, last_set, irq_ack_called, encVars,
                     preludeVars>>

mantle_replyrecv(reply_tag_label, reply_tag_count) ==
  LET reply_tag == sel4cp_msginfo_new(reply_tag_label, Uint16(reply_tag_count))
      r == seL4_ReplyRecv(sim, reply_tag)
  IN  /\ Commit(r.state)
      /\ mantle_ret_badge' = r.sender
      /\ mantle_ret_count' = ToNat(Uint16(seL4_MessageInfo_get_length(r.ret)))
      /\ ret_value' = sel4cp_msginfo_get_label(r.ret)
      /\ ret_msginfo' = r.ret
      /\ last_call' = [op |-> "replyrecv", label |-> reply_tag_label,
                       count |-> Uint16(reply_tag_count)]
      /\ pre_flags' = <<sim_notified, sim_irq_acked, sim_ppcalled>>
      /\ stage2_calls' = CountStage2(sel4cp_msginfo_get_label(reply_tag))
      /\ ack0_since_irq' =
           IF r.sender = KeypadBadge THEN FALSE ELSE ack0_since_irq
      /\ UNCHANGED <<sim_msg_register, last_set, irq_ack_called, encVars,
                     preludeVars>>

(***************************************************************************)
(* The message encoding on its own: encode the arguments, then decode.     *)
(***************************************************************************)
MessageInfo_new ==
  /\ msginfo_done = {}
  /\ msginfo_word' = seL4_MessageInfo_new(msginfo_args[1], msginfo_args[2],
                                          msginfo_args[3], msginfo_args[4])
  /\ msginfo_done' = {"new"}
  /\ UNCHANGED <<msginfo_args, got_label, got_length>>
  /\ UNCHANGED <<simVars, mantleVars, callVars, historyVars, pinpad_log,
                 preludeVars>>

MessageInfo_get_label ==
  /\ "new" \in msginfo_done
  /\ got_label' = seL4_MessageInfo_get_label(msginfo_word)
  /\ msginfo_done' = msginfo_done \cup {"label"}
  /\ UNCHANGED <<msginfo_args, msginfo_word, got_length>>
  /\ UNCHANGED <<simVars, mantleVars, callVars, historyVars, pinpad_log,
                 preludeVars>>

MessageInfo_get_length ==
  /\ "new" \in msginfo_done
  /\ got_length' = seL4_MessageInfo_get_length(msginfo_word)
  /\ msginfo_done' = msginfo_done \cup {"length"}
  /\ UNCHANGED <<msginfo_args, msginfo_word, got_label>>
  /\ UNCHANGED <<simVars, mantleVars, callVars, historyVars, pinpad_log,
                 preludeVars>>

(***************************************************************************)
(* The prelude: hang-on-abort and checked array indexing.  size_t is       *)
(* SizeBits wide here, so that a product of two of them stays an integer   *)
(* TLC represents; __builtin_mul_overflow reports exactly the products     *)
(* that do not fit the word.  A call either returns to its caller or       *)
(* enters the for (;;) loop of the abort, which has no exit.               *)
(***************************************************************************)
SizeBits == 12
MaxSpins == 2

SIZE_MAX == 2^SizeBits - 1

AuSizes == {0, 1, 3, SIZE_MAX}
AuIndexes == {0, 1, 2, 3, SIZE_MAX - 1, SIZE_MAX}
AuElemSizes == {0, 1, 8, 2^(SizeBits - 1), SIZE_MAX}
AuData == {0, 64}

builtin_mul_overflow(a, b) ==
  [overflow |-> a * b > SIZE_MAX, res |-> (a * b) % (SIZE_MAX + 1)]

\* au_abort_internal(message): two diagnostics, then the loop
au_abort_internal(message) ==
  /\ dbg_out' = <<"[libmantle] abort: ", message>>
  /\ au_pc' = "abort"
  /\ au_spins' = 0
  /\ UNCHANGED au_ptr

au_abort(message) ==
  /\ au_pc # "abort"
  /\ au_call' = [fn |-> "au_abort", message |-> message]
  /\ dbg_out' = <<"[libmantle] abort: on user request">>
  /\ au_pc' = "abort"
  /\ au_spins' = 0
  /\ UNCHANGED au_ptr
  /\ UNCHANGED <<simVars, mantleVars, callVars, historyVars, pinpad_log,
                 encVars>>

\* one turn of for (;;) { continue; }
au_abort_loop ==
  /\ au_pc = "abort"
  /\ au_spins < MaxSpins
  /\ au_spins' = au_spins + 1
  /\ UNCHANGED <<au_pc, au_call, au_ptr, dbg_out>>
  /\ UNCHANGED <<simVars, mantleVars, callVars, historyVars, pinpad_log,
                 encVars>>

au_array_index_inclusive(array, index, elem_size) ==
  /\ au_pc # "abort"
  /\ au_call' = [fn |-> "au_array_index", data |-> array.data,
                 size |-> array.size, index |-> index,
                 elem_size |-> elem_size]
  /\ IF index > array.size
     THEN au_abort_internal("Array index out of bounds.")
     ELSE LET m == builtin_mul_overflow(index, elem_size)
          IN  IF m.overflow
              THEN au_abort_internal(
                     "Multiplication overflow in array indexing operation.")
              ELSE /\ au_ptr' = array.data + m.res
                   /\ au_pc' = "returned"
                   /\ dbg_out' = <<>>
                   /\ UNCHANGED au_spins
  /\ UNCHANGED <<simVars, mantleVars, callVars, historyVars, pinpad_log,
                 encVars>>

au_array_index(array, index, elem_size) ==
  /\ au_pc # "abort"
  /\ au_call' = [fn |-> "au_array_index", data |-> array.data,
                 size |-> array.size, index |-> index,
                 elem_size |-> elem_size]
  /\ IF index >= array.size
     THEN au_abort_internal("Array index out of bounds.")
     ELSE LET m == builtin_mul_overflow(index, elem_size)
          IN  IF m.overflow
              THEN au_abort_internal(
                     "Multiplication overflow in array indexing operation.")
              ELSE /\ au_ptr' = array.data + m.res
                   /\ au_pc' = "returned"
                   /\ dbg_out' = <<>>
                   /\ UNCHANGED au_spins
  /\ UNCHANGED <<simVars, mantleVars, callVars, historyVars, pinpad_log,
                 encVars>>

(***************************************************************************)
(* Specifications.                                                         *)
(***************************************************************************)
\* the scripted scenario, driven through all its stages by the calls that
\* simulate() reacts to (it neither reads nor writes the message registers)
Next ==
  \/ \E ch \in ScenarioNotify : mantle_notify(ch)
  \/ \E ch \in ScenarioAck : mantle_irq_ack(ch)
  \/ /\ sim_tick < MaxTick
     /\ \E ch \in ScenarioPpcall, l \in ScenarioLabels, c \in ScenarioCounts :
          mantle_ppcall(ch, l, c)
  \/ /\ sim_tick < MaxTick
     /\ mantle_recv
  \/ /\ sim_tick < MaxTick
     /\ \E l \in ScenarioLabels : mantle_replyrecv(l, FromNat(0))

Spec == Init /\ [][Next]_vars

\* the event flags: notify and irq_ack on channels around every limit,
\* between a few of the calls that read and clear the flags
NextFlags ==
  \/ \E ch \in FlagNotify : mantle_notify(ch)
  \/ \E ch \in FlagAck : mantle_irq_ack(ch)
  \/ /\ sim_tick < MaxTickFlags
     /\ mantle_ppcall(1, FromNat(0), FromNat(0))
  \/ /\ sim_tick < MaxTickFlags
     /\ mantle_recv
  \/ /\ sim_tick < MaxTickFlags
     /\ mantle_replyrecv(FromNat(1), FromNat(0))

SpecFlags == Init /\ [][NextFlags]_vars

\* the whole call surface with the register file, for the first few calls
NextCalls ==
  \/ \E ch \in ScenarioNotify : mantle_notify(ch)
  \/ \E ch \in ScenarioAck : mantle_irq_ack(ch)
  \/ \E mr \in CallRegs, v \in CallValues : mantle_mr_set(mr, v)
  \/ \E mr \in CallRegs : mantle_mr_get(mr)
  \/ /\ sim_tick < MaxTickCalls
     /\ \E l \in CallLabels : mantle_ppcall(1, l, FromNat(0))
  \/ /\ sim_tick < MaxTickCalls
     /\ mantle_recv
  \/ /\ sim_tick < MaxTickCalls
     /\ \E l \in CallLabels : mantle_replyrecv(l, FromNat(0))

SpecCalls == Init /\ [][NextCalls]_vars

\* the message encoding
NextEnc ==
  \/ MessageInfo_new
  \/ MessageInfo_get_label
  \/ MessageInfo_get_length

SpecEnc == InitEnc /\ [][NextEnc]_vars

\* the prelude: calls of au_array_index around every limit, au_abort, and
\* the loop a failed call never leaves
NextPrelude ==
  \/ \E d \in AuData, n \in AuSizes, i \in AuIndexes, e \in AuElemSizes :
       au_array_index([data |-> d, size |-> n], i, e)
  \/ au_abort("bye")
  \/ au_abort_loop

SpecPrelude == Init /\ [][NextPrelude]_vars


(***************************************************************************)
(* Properties.                                                             *)
(***************************************************************************)
IsWait(c) == c.op \in {"recv", "replyrecv"}

IsIpc(c) == c.op \in {"recv", "replyrecv", "ppcall"}

\* C1: when a recv or reply_recv has returned, the notified flags, the
\* irq_acked flags and the pending-call channel are all zero, whatever they
\* were when the call was entered.
C1_RecvClearsFlags ==
  IsWait(last_call) =>
    /\ sim_notified = {}
    /\ sim_irq_acked = {}
    /\ sim_ppcalled = 0

\* a recv entered with all three set has returned
C1_Witness ==
  /\ last_call.op = "recv"
  /\ pre_flags[1] # {}
  /\ pre_flags[2] # {}
  /\ pre_flags[3] # 0
  /\ sim_notified = {}
  /\ sim_irq_acked = {}
  /\ sim_ppcalled = 0

\* C2: notify(c) and irq_ack(c) with c > 63 change nothing of the simulator
\* state (flags, pending-call channel, call record, registers, stage, timers,
\* digit counter).
C2_OutOfRangeChannelNoEffect ==
  [][(last_call'.op \in {"notify", "irq_ack"} /\ last_call'.ch > 63)
       => UNCHANGED simVars]_vars

\* a notify on a channel above 63 has returned with flags set before it
C2_Witness ==
  /\ last_call.op = "notify"
  /\ last_call.ch > 63
  /\ sim_notified # {}
  /\ sim_irq_acked # {}

\* C3: notify(c) with c in 0..63 sets exactly bit c of the notified flags,
\* irq_ack(c) exactly bit c of the irq_acked flags, every other bit keeps
\* its value.
C3_SetsExactlyBitC ==
  [][/\ (last_call'.op = "notify" /\ last_call'.ch <= 63)
          => sim_notified' = sim_notified \cup {last_call'.ch}
     /\ (last_call'.op = "irq_ack" /\ last_call'.ch <= 63)
          => sim_irq_acked' = sim_irq_acked \cup {last_call'.ch}]_vars

\* C4: a protected call yields response label 0 and response length 0, in
\* the word sel4cp_ppcall returns, in the value mantle_ppcall returns and in
\* the count mantle_get_ret_count reports afterwards.
C4_PpcallEmptyResponse ==
  last_call.op = "ppcall" =>
    /\ seL4_MessageInfo_get_label(ret_msginfo) = {}
    /\ seL4_MessageInfo_get_length(ret_msginfo) = {}
    /\ ret_value = {}
    /\ mantle_ret_count = 0

\* C5: the first recv, made before any other call that runs the engine,
\* returns the badge with bit 63 set and the other bits equal to 1, label 0
\* and length 0, and leaves the scenario in stage 1, whatever notify, irq_ack
\* and register calls came before it.
C5_FirstRecv ==
  [][(sim_tick = 0 /\ last_call'.op = "recv")
       => /\ mantle_ret_badge' = {63} \cup FromNat(1)
          /\ ret_value' = {}
          /\ seL4_MessageInfo_get_length(ret_msginfo') = {}
          /\ mantle_ret_count' = 0
          /\ sim_stage' = 1]_vars

\* the first recv has returned after a notify, an irq_ack and a register write
C5_Witness ==
  /\ last_call.op = "recv"
  /\ sim_tick = 1
  /\ pre_flags[1] # {}
  /\ pre_flags[2] # {}
  /\ sim_msg_register[0] # {}
  /\ sim_stage = 1
  /\ mantle_ret_badge = {0, 63}

\* C6 as stated: with no irq_ack call made, the first keypad interrupt is
\* returned by the D-th recv/reply_recv processed in stage 2, D the initial
\* delay, and by none before it.
C6_FirstInterruptAtD ==
  ~irq_ack_called =>
    /\ stage2_calls < InitIrqDelay
         => sim_pinpad_input = 0 /\ mantle_ret_badge # KeypadBadge
    /\ stage2_calls = InitIrqDelay
         => sim_pinpad_input = FirstDigit /\ mantle_ret_badge = KeypadBadge

\* C6 amended: with no irq_ack call made, the first keypad interrupt is
\* returned by the (D-1)-th recv/reply_recv processed in stage 2, counting
\* the reply_recv that enters stage 2, and by none before it.
C6_FirstInterruptAtDMinus1 ==
  ~irq_ack_called =>
    /\ stage2_calls < InitIrqDelay - 1
         => sim_pinpad_input = 0 /\ mantle_ret_badge # KeypadBadge
    /\ stage2_calls = InitIrqDelay - 1
         => sim_pinpad_input = FirstDigit /\ mantle_ret_badge = KeypadBadge
    /\ stage2_calls > InitIrqDelay - 1
         => sim_pinpad_input = FirstDigit

\* the (D-1)-th call in stage 2 has returned the first keypad interrupt
C6_Witness ==
  /\ ~irq_ack_called
  /\ IsWait(last_call)
  /\ sim_stage = 2
  /\ stage2_calls = InitIrqDelay - 1
  /\ sim_pinpad_input = FirstDigit
  /\ mantle_ret_badge = KeypadBadge

\* C7: within a digit sequence an irq_ack(0) call is made between the return
\* of the call that delivered one keypad interrupt and the call that
\* delivers the next; without it the timer stays at zero and the keypad
\* buffer keeps its digit.
C7_AckBetweenDigits ==
  [][/\ (IsWait(last_call') /\ mantle_ret_badge' = KeypadBadge
           /\ sim_pinpad_input' \in 2..(FirstDigit - 1))
          => ack0_since_irq
     /\ (sim_irq_delay = 0 /\ ~ack0_since_irq)
          => (sim_irq_delay' = 0 /\ sim_pinpad_input' = sim_pinpad_input)]_vars

\* C8: stage 6 is absorbing: a call made in stage 6 leaves the stage at 6,
\* a recv, reply_recv or protected call made there returns label 0 and
\* length 0, and a recv or reply_recv delivers badge 0.
C8_TerminalStage ==
  [][sim_stage = 6
       => /\ sim_stage' = 6
          /\ IsIpc(last_call')
               => /\ seL4_MessageInfo_get_label(ret_msginfo') = {}
                  /\ seL4_MessageInfo_get_length(ret_msginfo') = {}
                  /\ ret_value' = {}
          /\ IsWait(last_call')
               => /\ mantle_ret_badge' = {}
                  /\ mantle_ret_count' = 0]_vars

\* a reply_recv with label 1 has returned in stage 6 after a notify(1); no
\* irq_ack came before it, so it is not the call that entered stage 6
C8_Witness ==
  /\ sim_stage = 6
  /\ last_call.op = "replyrecv"
  /\ last_call.label = FromNat(1)
  /\ pre_flags[1] # {}
  /\ pre_flags[2] = {}
  /\ mantle_ret_badge = {}

\* C9: the register file is a persistent map over 0..120: every register
\* holds the value of the most recent reg_set on its index (0 if none),
\* whatever other calls were made, so a reg_set with index > 120 changes no
\* register; reg_get returns that value for an index <= 120 and 0 for an
\* index > 120.
C9_RegisterMap ==
  /\ \A i \in 0..MaxRegister :
       sim_msg_register[i] = IF i \in DOMAIN last_set THEN last_set[i] ELSE {}
  /\ last_call.op = "mr_get" =>
       ret_value = IF last_call.mr \in DOMAIN last_set
                   THEN last_set[last_call.mr]
                   ELSE {}

\* register 120 is read back after being written and after the engine ran
C9_Witness ==
  /\ last_call.op = "mr_get"
  /\ last_call.mr = 120
  /\ ret_value = {63}
  /\ sim_stage = 2
  /\ sim_tick = 3

\* C10: decode_label(encode(label, capsUnwrapped, extraCaps, length)) is the
\* low 52 bits of label and decode_length(...) the low 7 bits of length: the
\* value itself when it is within its width, the masked value otherwise,
\* whatever the other fields are.
C10_EncodeRoundTrip ==
  /\ "label" \in msginfo_done =>
       /\ got_label = msginfo_args[1] \cap (0..51)
       /\ msginfo_args[1] \subseteq (0..51) => got_label = msginfo_args[1]
  /\ "length" \in msginfo_done =>
       /\ got_length = msginfo_args[4] \cap (0..6)
       /\ msginfo_args[4] \subseteq (0..6) => got_length = msginfo_args[4]

\* a label and a length wider than their fields, with capsUnwrapped and
\* extraCaps wider than theirs, have been encoded and decoded
C10_Witness ==
  /\ msginfo_done = {"new", "label", "length"}
  /\ msginfo_args = <<{0, 52}, {0, 3}, {0, 2}, {0, 7}>>
  /\ got_label = {0}
  /\ got_length = {0}

\* C11: simulate() runs before the flags are cleared.  A recv or reply_recv
\* leaves the notified and irq_acked flags empty, between two of them the
\* flags change only by notify and irq_ack and only grow, and the engine
\* acts on the flags as they are when the call is entered: entered in stage
\* 3 the call moves to stage 4 exactly when notify(1) is pending, and
\* entered with the keypad interrupt masked it steps the digit counter
\* exactly when irq_ack(0) is pending.
C11_EngineSeesFlagsSinceLastWait ==
  [][/\ IsWait(last_call') =>
          /\ sim_notified' = {}
          /\ sim_irq_acked' = {}
          /\ sim_stage = 3 => (sim_stage' = 4 <=> 1 \in sim_notified)
          /\ (sim_stage \in {2, 5} /\ sim_irq_delay = 0) =>
               (sim_next_digit' = sim_next_digit - 1 <=> 0 \in sim_irq_acked)
     /\ ~IsWait(last_call') =>
          /\ sim_notified \subseteq sim_notified'
          /\ sim_irq_acked \subseteq sim_irq_acked'
          /\ sim_notified' # sim_notified => last_call'.op = "notify"
          /\ sim_irq_acked' # sim_irq_acked => last_call'.op = "irq_ack"
    ]_vars

\* a call entered in stage 3 (no acknowledgement was pending, so it did not
\* come out of stage 2 in this call) with notify(1) pending has moved the
\* scenario to stage 4, handed out client 2's invitation, and cleared the flag
C11_Witness ==
  /\ IsWait(last_call)
  /\ sim_stage = 4
  /\ pre_flags[1] = {1}
  /\ pre_flags[2] = {}
  /\ sim_notified = {}
  /\ mantle_ret_badge = PPCALL_BADGE \cup FromNat(2)

\* C12: no operation decreases sim_stage, and it stays within 0..6.
C12_StageMonotone ==
  [][sim_stage' >= sim_stage /\ sim_stage' \in 0..6]_vars

\* the scenario has gone through every stage to the last
C12_Witness ==
  /\ sim_stage = 6
  /\ IsWait(last_call)
  /\ pinpad_log = <<5, 4, 3, 2, 5, 4, 3, 2>>

\* C13 as stated: a single recv, reply_recv or protected_call increases the
\* stage by at most one.
C13_AtMostOnePerCall ==
  [][IsIpc(last_call') => sim_stage' <= sim_stage + 1]_vars

\* C13: a single call increases the stage by at most two, by two only in a
\* recv or reply_recv entered in stage 0 or stage 2 (the blocks of
\* simulate() run one after the other, so a stage just entered can be left
\* in the same call), and only recv and reply_recv change the stage at all.
C13_AtMostTwoPerCall ==
  [][/\ sim_stage' <= sim_stage + 2
     /\ sim_stage' = sim_stage + 2 => sim_stage \in {0, 2}
     /\ ~IsWait(last_call') => sim_stage' = sim_stage
    ]_vars

\* the first call, a reply_recv with label 1, took the scenario from stage 0
\* through stage 1 to stage 2
C13_Witness ==
  /\ sim_tick = 1
  /\ last_call.op = "replyrecv"
  /\ sim_stage = 2
  /\ mantle_ret_badge = PPCALL_BADGE \cup FromNat(1)

\* the call in progress takes the scenario from stage 3 to stage 4
Enters4 == sim_stage < 4 /\ sim_stage' = 4

\* C14 as stated: after a call the call record is what the primitive set:
\* the engine changes neither the call kind, nor the target channel, nor the
\* reply label.
C14_CallRecordReadOnly ==
  [][/\ last_call'.op = "ppcall" =>
          /\ sim_calltype' = SIM_CALLTYPE_PPCALL
          /\ sim_ppcalled' = last_call'.ch
          /\ sim_reply_label' = last_call'.label \cap (0..51)
     /\ last_call'.op = "recv" =>
          /\ sim_calltype' = SIM_CALLTYPE_RECV
          /\ sim_ppcalled' = 0
          /\ sim_reply_label' = sim_reply_label
     /\ last_call'.op = "replyrecv" =>
          /\ sim_calltype' = SIM_CALLTYPE_REPLYRECV
          /\ sim_ppcalled' = 0
          /\ sim_reply_label' = last_call'.label \cap (0..51)
    ]_vars

\* C14: the engine changes neither the call kind nor the target channel; it
\* changes the reply label in one place only, the move from stage 3 to
\* stage 4, which sets it to 0.  In every other call the record is what the
\* primitive set, and no other operation touches it.
C14_CallRecordFrame ==
  [][/\ last_call'.op = "ppcall" =>
          /\ sim_calltype' = SIM_CALLTYPE_PPCALL
          /\ sim_ppcalled' = last_call'.ch
          /\ sim_reply_label' = last_call'.label \cap (0..51)
     /\ last_call'.op = "recv" =>
          /\ sim_calltype' = SIM_CALLTYPE_RECV
          /\ sim_ppcalled' = 0
          /\ sim_reply_label' = IF Enters4 THEN {} ELSE sim_reply_label
     /\ last_call'.op = "replyrecv" =>
          /\ sim_calltype' = SIM_CALLTYPE_REPLYRECV
          /\ sim_ppcalled' = 0
          /\ sim_reply_label' =
               IF Enters4 THEN {} ELSE last_call'.label \cap (0..51)
     /\ ~IsIpc(last_call') =>
          UNCHANGED <<sim_calltype, sim_ppcalled, sim_reply_label>>
    ]_vars

\* a reply_recv with label 1 took the scenario to stage 4, and the label it
\* recorded is gone
C14_Witness ==
  /\ last_call.op = "replyrecv"
  /\ last_call.label = FromNat(1)
  /\ sim_calltype = SIM_CALLTYPE_REPLYRECV
  /\ sim_stage = 4
  /\ sim_reply_label = {}

\* the call in progress stores a digit in the keypad buffer
WritesDigit == Len(pinpad_log') = Len(pinpad_log) + 1

Digits == [i \in 1..(FirstDigit - 1) |-> FirstDigit + 1 - i]

\* digits of the current sequence stored so far, as the counter and the
\* mask tell it: one for each acknowledged digit, and one more while the
\* keypad interrupt is masked
DigitsStored ==
  (FirstDigit - sim_next_digit) + (IF sim_irq_delay = 0 THEN 1 ELSE 0)

\* C16: the scenario leaves stage 2 or stage 5 only in a call that brings
\* the digit counter to 1, having observed irq_ack(0); the counter steps
\* down by one at a time, only in a recv or reply_recv that observes
\* irq_ack(0) and only after the digit it stood at was stored; and what has
\* been stored so far is always a prefix of 5, 4, 3, 2 (after the whole of
\* 5, 4, 3, 2 once stage 5 is reached), one digit for each timer expiry.
C16_DigitSequence ==
  [][/\ ((sim_stage = 2 /\ sim_stage' > 2) \/
         (sim_stage = 5 /\ sim_stage' > 5)) =>
          /\ sim_next_digit' = 1
          /\ sim_next_digit = 2
          /\ 0 \in sim_irq_acked
          /\ IsWait(last_call')
     /\ (sim_next_digit' # sim_next_digit /\ ~(sim_stage = 4 /\ sim_stage' = 5)) =>
          /\ sim_next_digit' = sim_next_digit - 1
          /\ IsWait(last_call')
          /\ 0 \in sim_irq_acked
          /\ Len(pinpad_log') > 0
          /\ pinpad_log'[Len(pinpad_log')] = sim_next_digit
     /\ WritesDigit => sim_irq_delay \in {1, 2}
     /\ (sim_stage' \in {3, 4, 6}) => sim_next_digit' = 1
     /\ DigitsStored' \in 0..Len(Digits)
     /\ pinpad_log' =
          (IF sim_stage' >= 5 THEN Digits ELSE <<>>) \o
          SubSeq(Digits, 1, DigitsStored')
    ]_vars

\* the call that left stage 2: the counter is at 1, the acknowledgement of
\* digit 2 was observed, and 5, 4, 3, 2 have been stored in this order
C16_Witness ==
  /\ IsWait(last_call)
  /\ sim_stage = 3
  /\ sim_next_digit = 1
  /\ pre_flags[2] = {0}
  /\ pinpad_log = <<5, 4, 3, 2>>

\* C17: au_array_index with index >= size, or with index * elem_size not
\* fitting the word, ends in the abort loop after a diagnostic, hands no
\* pointer back, and the loop is never left; with index < size and no
\* overflow it returns data + index * elem_size and prints nothing.
\* au_abort ends in the loop as well.
C17_HardViolationsNeverReturn ==
  [][/\ au_pc = "abort" =>
          /\ au_pc' = "abort"
          /\ UNCHANGED <<au_call, au_ptr, dbg_out>>
     /\ au_pc' = "abort" => Len(dbg_out') >= 1
     /\ au_call'.fn = "au_abort" => au_pc' = "abort"
     /\ au_call'.fn = "au_array_index" =>
          IF \/ au_call'.index >= au_call'.size
             \/ au_call'.index * au_call'.elem_size > SIZE_MAX
          THEN /\ au_pc' = "abort"
               /\ au_ptr' = au_ptr
          ELSE /\ au_pc' = "returned"
               /\ au_ptr' = au_call'.data
                              + au_call'.index * au_call'.elem_size
               /\ dbg_out' = <<>>
    ]_vars

\* an index within the array whose offset overflows: the call is in the
\* loop, as many turns on as the model follows it
C17_Witness ==
  /\ au_pc = "abort"
  /\ au_spins = MaxSpins
  /\ au_call.fn = "au_array_index"
  /\ au_call.index < au_call.size
  /\ au_call.index * au_call.elem_size > SIZE_MAX
  /\ dbg_out[2] = "Multiplication overflow in array indexing operation."

\* C18: the scenario leaves stage 1 for stage 2, or stage 4 for stage 5,
\* only in a reply_recv whose reply label is 1; no recv does it, whatever
\* protected_call came before.
C18_AdvanceOnlyOnReply ==
  [][((sim_stage = 1 /\ sim_stage' >= 2) \/
      (sim_stage = 4 /\ sim_stage' >= 5)) =>
       /\ last_call'.op = "replyrecv"
       /\ last_call'.label \cap (0..51) = FromNat(1)
    ]_vars

\* the values the keypad timer is reloaded with
TimerLoads == {Stage2Reload, Stage5IrqDelay, Stage5Reload}

\* the digit counter stays within 1..5, the timer within 0 and its largest
\* load, and the keypad buffer holds 0 or one of 2..5
CounterRanges ==
  /\ sim_next_digit' \in 1..FirstDigit
  /\ sim_irq_delay' \in 0..InitIrqDelay \cup 0..Stage5IrqDelay
                        \cup 0..Stage2Reload \cup 0..Stage5Reload
  /\ sim_pinpad_input' \in {0} \cup 2..FirstDigit

C20_DigitCallReturnsKeypadBadge ==
  [][WritesDigit => mantle_ret_badge' = KeypadBadge]_vars

====
